---- MODULE Spec2Model ----
(***************************************************************************)
(* Model of utils_maintenance/autopep8_format_paths.py.                    *)
(*                                                                         *)
(* Strings and byte strings are sequences of one-character strings, so     *)
(* that endswith, split, replace, decode and int are computed the way the  *)
(* script computes them.  An optional value (Python None or a value) is    *)
(* the empty sequence or a one-element sequence.                           *)
(***************************************************************************)
EXTENDS Integers, Sequences, FiniteSets, TLC

\* ------------------------------------------------------------------------
\* Bounds of the model.
MaxOutLen == 5
MaxFiles == 2
MaxPaths == 2

\* ------------------------------------------------------------------------
\* Module-level constants of the script.
VERSION_MIN == <<1, 6, 0>>
VERSION_MAX_RECOMMENDED == <<1, 6, 0>>
DEFAULT_CMD == <<"a", "u", "t", "o", "p", "e", "p", "8">>
extensions == {<<".", "p", "y">>}
ignore_file == <<"r", "e", "l", "e", "a", "s", "e", "/", "s", "c", "r", "i", "p", "t", "s", "/", "m", "o", "d", "u", "l", "e", "s", "/", "r", "n", "a", "_", "m", "a", "n", "u", "a", "l", "_", "r", "e", "f", "e", "r", "e", "n", "c", "e", ".", "p", "y">>
ignore_files == {ignore_file}
default_paths == << <<"b", "u", "i", "l", "d", "_", "f", "i", "l", "e", "s">>, <<"r", "e", "l", "e", "a", "s", "e">>, <<"d", "o", "c">>, <<"s", "o", "u", "r", "c", "e">>, <<"t", "e", "s", "t", "s">> >>
sys_executable == <<"p", "y", "t", "h", "o", "n", "3">>
git_executable == <<"g", "i", "t">>

\* ------------------------------------------------------------------------
\* Optional values.
None == << >>
Some(x) == <<x>>
Val(o) == o[1]

\* ------------------------------------------------------------------------
\* Python built-ins used by the script.
Digits == {"0", "1", "2", "3", "4", "5", "6", "7", "8", "9"}
Whitespace == {" ", "\n"}
NUL == "NUL"
\* Bytes outside ASCII (and, where they stand alone, outside UTF-8).
HighBytes == {"0xE9", "0xFF"}

Range(s) == {s[i] : i \in 1..Len(s)}

SetMin(S) == CHOOSE x \in S : \A y \in S : x <= y

\* str.endswith(suffix)
EndsWith(s, suf) ==
  /\ Len(s) >= Len(suf)
  /\ SubSeq(s, Len(s) - Len(suf) + 1, Len(s)) = suf

\* str.endswith(tuple of suffixes)
EndsWithAny(s, sufs) == \E suf \in sufs : EndsWith(s, suf)

\* str.split(sep) / bytes.split(sep) for a one-character separator:
\* always one field more than there are separators, empty fields kept.
RECURSIVE SplitOn(_, _)
SplitOn(s, c) ==
  LET idx == {i \in 1..Len(s) : s[i] = c}
  IN  IF idx = {} THEN <<s>>
      ELSE LET i == SetMin(idx)
           IN <<SubSeq(s, 1, i - 1)>> \o SplitOn(SubSeq(s, i + 1, Len(s)), c)

\* str.split() without argument: runs of whitespace separate, no empty field.
RECURSIVE SplitWhitespace(_)
SplitWhitespace(s) ==
  IF s = << >> THEN << >>
  ELSE IF s[1] \in Whitespace THEN SplitWhitespace(Tail(s))
  ELSE LET stops == {i \in 1..Len(s) : s[i] \in Whitespace}
           e == IF stops = {} THEN Len(s) + 1 ELSE SetMin(stops)
       IN <<SubSeq(s, 1, e - 1)>> \o SplitWhitespace(SubSeq(s, e, Len(s)))

\* str.replace(old, new) for one-character old and new.
Replace(s, old, new) == [i \in 1..Len(s) |-> IF s[i] = old THEN new ELSE s[i]]

\* bytes.decode('ascii') and bytes.decode('utf-8'): a byte string holding a
\* high byte of the model raises UnicodeDecodeError, any other decodes to
\* the same characters.
Decodable(b) == \A i \in 1..Len(b) : b[i] \notin HighBytes

DigitVal(c) ==
  CASE c = "0" -> 0 [] c = "1" -> 1 [] c = "2" -> 2 [] c = "3" -> 3
    [] c = "4" -> 4 [] c = "5" -> 5 [] c = "6" -> 6 [] c = "7" -> 7
    [] c = "8" -> 8 [] c = "9" -> 9

\* int(s) accepts decimal digits with single underscores between digits;
\* anything else (the empty string included) raises ValueError.
IntValid(s) ==
  /\ s # << >>
  /\ \A i \in 1..Len(s) : s[i] \in Digits \cup {"_"}
  /\ s[1] # "_"
  /\ s[Len(s)] # "_"
  /\ \A i \in 1..(Len(s) - 1) : ~(s[i] = "_" /\ s[i + 1] = "_")

RECURSIVE IntVal(_)
IntVal(s) ==
  IF s = << >> THEN 0
  ELSE LET c == s[Len(s)]
           r == IntVal(SubSeq(s, 1, Len(s) - 1))
       IN IF c = "_" THEN r ELSE 10 * r + DigitVal(c)

\* Comparison of Python tuples of integers: lexicographic, a proper prefix
\* is smaller.
RECURSIVE TupleLess(_, _)
TupleLess(a, b) ==
  IF b = << >> THEN FALSE
  ELSE IF a = << >> THEN TRUE
  ELSE IF a[1] # b[1] THEN a[1] < b[1]
  ELSE TupleLess(Tail(a), Tail(b))

\* All sequences over S of length at most n.
RECURSIVE SeqsUpTo(_, _)
SeqsUpTo(S, n) ==
  IF n = 0 THEN {<< >>}
  ELSE LET shorter == SeqsUpTo(S, n - 1)
       IN shorter \cup {Append(s, x) : s \in shorter, x \in S}

RECURSIVE Flatten(_)
Flatten(ss) == IF ss = << >> THEN << >> ELSE Head(ss) \o Flatten(Tail(ss))

\* ------------------------------------------------------------------------
\* Words of the command lines the script builds.
opt_version == <<"-", "-", "v", "e", "r", "s", "i", "o", "n">>
opt_recursive == <<"-", "-", "r", "e", "c", "u", "r", "s", "i", "v", "e">>
opt_in_place == <<"-", "-", "i", "n", "-", "p", "l", "a", "c", "e">>
opt_jobs == <<"-", "-", "j", "o", "b", "s", "=", "0">>
w_diff == <<"d", "i", "f", "f">>
w_HEAD == <<"H", "E", "A", "D">>
opt_name_only == <<"-", "-", "n", "a", "m", "e", "-", "o", "n", "l", "y">>
opt_z == <<"-", "z">>
w_dashdash == <<"-", "-">>
w_ls_tree == <<"l", "s", "-", "t", "r", "e", "e">>
opt_r == <<"-", "r">>

\* ------------------------------------------------------------------------
\* A variant of compute_paths that joins the two tests of the filter with
\* `and`.
compute_paths_and(ps, use_default_paths, isfile, sep) ==
  LET selected ==
        IF use_default_paths THEN default_paths
        ELSE SelectSeq(ps, LAMBDA f : f \notin isfile /\ EndsWithAny(f, extensions))
  IN  IF sep # "/"
      THEN [i \in 1..Len(selected) |-> Replace(selected[i], "/", sep)]
      ELSE selected

\* compute_paths: the default directories, or the user's paths without the
\* existing files of an unsupported suffix; then the separator of the host.
compute_paths(ps, use_default_paths, isfile, sep) ==
  LET selected ==
        IF use_default_paths THEN default_paths
        ELSE SelectSeq(ps, LAMBDA f : f \notin isfile \/ EndsWithAny(f, extensions))
  IN  IF sep # "/"
      THEN [i \in 1..Len(selected) |-> Replace(selected[i], "/", sep)]
      ELSE selected

\* source_files_from_git: the command line of the query.
git_argv(ps, changed_only) ==
  IF changed_only
  THEN <<git_executable, w_diff, w_HEAD, opt_name_only, opt_z, w_dashdash>> \o ps
  ELSE <<git_executable, w_ls_tree, opt_r, w_HEAD>> \o ps \o <<opt_name_only, opt_z>>

\* source_files_from_git: the fields of the NUL-delimited output.
git_fields(bytes) == SplitOn(bytes, NUL)

\* A variant of filter_files without the test against ignore_files.
filter_files_no_ignore(fs) ==
  SelectSeq(fs, LAMBDA f : EndsWithAny(f, extensions))

\* main: the comprehension that keeps the files to format.
filter_files(fs) ==
  SelectSeq(fs, LAMBDA f : EndsWithAny(f, extensions) /\ f \notin ignore_files)

\* A variant of skip_format that never returns early.
skip_format_never(fs) == FALSE

\* main: `if not files: return`.
skip_format(fs) == fs = << >>

\* autopep8_ensure_version: the command line of the version query.
version_argv(c) ==
  (IF EndsWith(c, <<".", "p", "y">>) THEN <<sys_executable, c>> ELSE <<c>>)
    \o <<opt_version>>

\* A variant of format_argv that runs the default command name.
format_argv_default(c, fs) ==
  <<DEFAULT_CMD, opt_recursive, opt_in_place, opt_jobs>> \o fs

\* autopep8_format: the command line of the format invocation.
format_argv(c, fs) ==
  (IF EndsWith(c, <<".", "p", "y">>) THEN <<sys_executable, c>> ELSE <<c>>)
    \o <<opt_recursive, opt_in_place, opt_jobs>> \o fs

\* A variant of version_token that takes the last such token.
version_token_last(out) ==
  LET toks == SelectSeq(SplitWhitespace(out), LAMBDA v : v[1] \in Digits)
  IN  IF toks = << >> THEN None ELSE Some(toks[Len(toks)])

\* autopep8_ensure_version: the first whitespace-delimited token that starts
\* with a digit, as an optional value.
version_token(out) ==
  LET toks == SelectSeq(SplitWhitespace(out), LAMBDA v : v[1] \in Digits)
  IN  IF toks = << >> THEN None ELSE Some(Head(toks))

\* autopep8_ensure_version: the components of the token before its first
\* hyphen.
version_components(tok) == SplitOn(SplitOn(tok, "-")[1], ".")

\* autopep8_ensure_version from the split of the output to the return:
\* the exception raised ("none" when it returns) and the value returned.
ensure_version_result(out_opt) ==
  IF out_opt = None
  THEN [exc |-> "AttributeError", version |-> None]
  ELSE LET tok == version_token(Val(out_opt))
       IN IF tok = None
          THEN [exc |-> "none", version |-> None]
          ELSE LET comps == version_components(Val(tok))
               IN IF \E i \in 1..Len(comps) : ~IntValid(comps[i])
                  THEN [exc |-> "ValueError", version |-> None]
                  ELSE IF Len(comps) < 3
                  THEN [exc |-> "IndexError", version |-> None]
                  ELSE [exc |-> "none",
                        version |-> Some([i \in 1..Len(comps) |-> IntVal(comps[i])])]

\* Variants of version_too_old: one compares the major number only, one
\* rejects every version but the minimum.
version_too_old_major(v) == v[1] < VERSION_MIN[1]
version_too_old_unequal(v) == v # VERSION_MIN

\* main: `version < VERSION_MIN` and `version > VERSION_MAX_RECOMMENDED`.
version_too_old(v) == TupleLess(v, VERSION_MIN)
version_too_recent(v) == TupleLess(VERSION_MAX_RECOMMENDED, v)

\* ------------------------------------------------------------------------
\* Inputs of a run.

\* Values of --autopep8-command: empty, the default, a script, a binary.
CmdScript == <<"l", "i", "b", "/", "a", "u", "t", "o", "p", "e", "p", "8", ".", "p", "y">>
CmdBinary == <<"b", "i", "n", "/", "a", "u", "t", "o", "p", "e", "p", "8">>
CommandArgs == {<< >>, DEFAULT_CMD, CmdScript, CmdBinary}

\* Path arguments: a directory name, a Python file name, a C file name.
Path_doc == <<"d", "o", "c">>
Path_src_a_py == <<"s", "o", "u", "r", "c", "e", "/", "a", ".", "p", "y">>
Path_src_a_c == <<"s", "o", "u", "r", "c", "e", "/", "a", ".", "c">>
PathSamples == {Path_doc, Path_src_a_py, Path_src_a_c}
MainPathArgs == {<< >>, <<Path_doc>>, <<Path_src_a_c, Path_src_a_py>>}

\* Outputs of `<command> --version`.
OutFull == <<"a", "u", "t", "o", "p", "e", "p", "8", " ", "1", ".", "6", ".", "0", " ", "(", "p", "y", "c", "o", "d", "e", "s", "t", "y", "l", "e", ":", " ", "2", ".", "9", ".", "1", ")", "\n">>
OutBeta == <<"1", ".", "6", ".", "0", "-", "b", "e", "t", "a">>
OutOld == <<"a", "u", "t", "o", "p", "e", "p", "8", " ", "1", ".", "5", ".", "9", "\n">>
OutNew == <<"a", "u", "t", "o", "p", "e", "p", "8", " ", "2", ".", "0", ".", "4", "\n">>
OutFour == <<"a", "u", "t", "o", "p", "e", "p", "8", " ", "1", ".", "6", ".", "0", ".", "1", "\n">>
OutTwo == <<"a", "u", "t", "o", "p", "e", "p", "8", " ", "1", ".", "6", "\n">>
OutRc == <<"a", "u", "t", "o", "p", "e", "p", "8", " ", "1", ".", "6", ".", "0", "r", "c", "1", "\n">>
OutUnderscore == <<"a", "u", "t", "o", "p", "e", "p", "8", " ", "1", "_", "0", ".", "6", ".", "0">>
OutNoVersion == <<"a", "u", "t", "o", "p", "e", "p", "8", "\n">>
OutBadBytes == <<"0xFF", "\n">>
SampleOutputs ==
  {OutFull, OutBeta, OutOld, OutNew, OutFour, OutTwo, OutRc, OutUnderscore,
   OutNoVersion, << >>, OutBadBytes}
OutAlphabet == {"0", "1", "6", ".", "-", " ", "b"}

\* Entries of the version-control output.
File_a_py == <<"a", ".", "p", "y">>
File_a_c == <<"a", ".", "c">>
File_py == <<"p", "y">>
File_high_py == <<"0xE9", ".", "p", "y">>
FileSamples == {File_a_py, File_a_c, File_py, File_high_py, ignore_file}

\* How the launch of a subprocess with check_output ends.
LaunchResults == {"ok", "FileNotFoundError", "CalledProcessError"}

\* `git ... -z` ends every entry with a NUL.
git_bytes(entries) ==
  Flatten([i \in 1..Len(entries) |-> Append(entries[i], NUL)])

\* ------------------------------------------------------------------------
\* State.
VARIABLES
  pc,                   \* position of the run in main
  args,                 \* the parsed command line
  host,                 \* os.sep, the existing files, the existing commands
  AUTOPEP8_FORMAT_CMD,  \* the module-level global
  version_output,       \* local of autopep8_ensure_version
  version,              \* local of main
  paths,                \* local of main
  git_output,           \* bytes returned by the version-control query
  files,                \* local of main
  calls,                \* launches of subprocesses, in order
  stdout,               \* messages printed, in order
  outcome               \* how the run ended

vars == <<pc, args, host, AUTOPEP8_FORMAT_CMD, version_output, version, paths,
          git_output, files, calls, stdout, outcome>>

Call(argv, result) == [argv |-> argv, result |-> result]

InitLocals ==
  /\ AUTOPEP8_FORMAT_CMD = DEFAULT_CMD
  /\ version_output = None
  /\ version = None
  /\ paths = << >>
  /\ git_output = None
  /\ files = << >>
  /\ calls = << >>
  /\ stdout = << >>
  /\ outcome = "running"

\* The state when main has parsed its arguments.
Init ==
  /\ pc = "ensure_explicit"
  /\ args \in [autopep8_command : CommandArgs,
               paths : MainPathArgs,
               changed_only : BOOLEAN]
  /\ host \in [sep : {"/", "\\"},
               isfile : {{}, {Path_src_a_py, Path_src_a_c}},
               exists : {{}, {CmdScript, CmdBinary, DEFAULT_CMD}}]
  /\ InitLocals

Terminate(how) ==
  /\ outcome' = how
  /\ pc' = "done"

\* autopep8_ensure_version, one candidate: launch `<command> --version`;
\* FileNotFoundError moves on to `after`, any other failure propagates.
QueryVersion(c, after) ==
  \E r \in LaunchResults, out \in SampleOutputs :
    /\ calls' = Append(calls, Call(version_argv(c), r))
    /\ IF r = "FileNotFoundError"
       THEN /\ pc' = after
            /\ UNCHANGED <<version_output, AUTOPEP8_FORMAT_CMD, outcome>>
       ELSE IF r = "CalledProcessError"
       THEN /\ Terminate("CalledProcessError")
            /\ UNCHANGED <<version_output, AUTOPEP8_FORMAT_CMD>>
       ELSE IF ~Decodable(out)
       THEN /\ Terminate("UnicodeDecodeError")
            /\ UNCHANGED <<version_output, AUTOPEP8_FORMAT_CMD>>
       ELSE /\ version_output' = Some(out)
            /\ AUTOPEP8_FORMAT_CMD' = c
            /\ pc' = "ensure_parse"
            /\ UNCHANGED outcome
    /\ UNCHANGED <<args, host, version, paths, git_output, files, stdout>>

\* autopep8_ensure_version, first iteration: the command of the arguments.
TryExplicit ==
  /\ pc = "ensure_explicit"
  /\ LET c == args.autopep8_command
     IN IF c # << >> /\ c \in host.exists
        THEN QueryVersion(c, "ensure_default")
        ELSE /\ pc' = "ensure_default"
             /\ UNCHANGED <<args, host, AUTOPEP8_FORMAT_CMD, version_output,
                            version, paths, git_output, files, calls, stdout,
                            outcome>>

\* autopep8_ensure_version, second iteration: the default command.
TryDefault ==
  /\ pc = "ensure_default"
  /\ QueryVersion(DEFAULT_CMD, "ensure_parse")

\* autopep8_ensure_version after the loop: parse, print, return.
ParseVersion ==
  /\ pc = "ensure_parse"
  /\ LET r == ensure_version_result(version_output)
     IN IF r.exc # "none"
        THEN /\ Terminate(r.exc)
             /\ UNCHANGED <<version, stdout>>
        ELSE /\ version' = r.version
             /\ stdout' = IF r.version # None THEN Append(stdout, "Using") ELSE stdout
             /\ pc' = "check_version"
             /\ UNCHANGED outcome
  /\ UNCHANGED <<args, host, AUTOPEP8_FORMAT_CMD, version_output, paths,
                 git_output, files, calls>>

\* main: the checks of the version.
CheckVersion ==
  /\ pc = "check_version"
  /\ IF version = None
     THEN /\ stdout' = Append(stdout, "Unable to detect")
          /\ Terminate("exit1")
     ELSE IF version_too_old(Val(version))
     THEN /\ stdout' = Append(stdout, "too old")
          /\ Terminate("exit1")
     ELSE /\ stdout' = IF version_too_recent(Val(version))
                       THEN Append(stdout, "WARNING: too recent")
                       ELSE stdout
          /\ pc' = "compute_paths"
          /\ UNCHANGED outcome
  /\ UNCHANGED <<args, host, AUTOPEP8_FORMAT_CMD, version_output, version,
                 paths, git_output, files, calls>>

\* main: resolve the paths and print them.
ComputePaths ==
  /\ pc = "compute_paths"
  /\ LET use_default_paths == ~(args.paths # << >> \/ args.changed_only)
     IN paths' = compute_paths(args.paths, use_default_paths, host.isfile, host.sep)
  /\ stdout' = Append(stdout, "Operating on")
  /\ pc' = "enumerate"
  /\ UNCHANGED <<args, host, AUTOPEP8_FORMAT_CMD, version_output, version,
                 git_output, files, calls, outcome>>

\* main: query version control, decode, filter, return when nothing is left.
EnumerateFiles ==
  /\ pc = "enumerate"
  /\ \E r \in LaunchResults, entries \in SeqsUpTo(FileSamples, MaxFiles) :
       LET bytes == git_bytes(entries)
           fields == git_fields(bytes)
       IN /\ calls' = Append(calls, Call(git_argv(paths, args.changed_only), r))
          /\ IF r # "ok"
             THEN /\ Terminate(r)
                  /\ UNCHANGED <<git_output, files>>
             ELSE /\ git_output' = Some(bytes)
                  /\ IF \E i \in 1..Len(fields) : ~Decodable(fields[i])
                     THEN /\ Terminate("UnicodeDecodeError")
                          /\ UNCHANGED files
                     ELSE /\ files' = filter_files(fields)
                          /\ IF skip_format(files')
                             THEN Terminate("exit0")
                             ELSE pc' = "format" /\ UNCHANGED outcome
  /\ UNCHANGED <<args, host, AUTOPEP8_FORMAT_CMD, version_output, version,
                 paths, stdout>>

\* main: autopep8_format(files).
Format ==
  /\ pc = "format"
  /\ \E r \in LaunchResults :
       /\ calls' = Append(calls, Call(format_argv(AUTOPEP8_FORMAT_CMD, files), r))
       /\ Terminate(IF r = "ok" THEN "exit0" ELSE r)
  /\ UNCHANGED <<args, host, AUTOPEP8_FORMAT_CMD, version_output, version,
                 paths, git_output, files, stdout>>

Next ==
  \/ TryExplicit
  \/ TryDefault
  \/ ParseVersion
  \/ CheckVersion
  \/ ComputePaths
  \/ EnumerateFiles
  \/ Format

Spec == Init /\ [][Next]_vars

\* ------------------------------------------------------------------------
\* The parse of autopep8_ensure_version on every short version output: the
\* run stands after a successful `autopep8 --version`.
InitVersion ==
  /\ pc = "ensure_parse"
  /\ args = [autopep8_command |-> DEFAULT_CMD, paths |-> << >>, changed_only |-> FALSE]
  /\ host = [sep |-> "/", isfile |-> {}, exists |-> {}]
  /\ AUTOPEP8_FORMAT_CMD = DEFAULT_CMD
  /\ \E out \in SeqsUpTo(OutAlphabet, MaxOutLen) \cup SampleOutputs :
       /\ Decodable(out)
       /\ version_output = Some(out)
  /\ version = None
  /\ paths = << >>
  /\ git_output = None
  /\ files = << >>
  /\ calls = <<Call(version_argv(DEFAULT_CMD), "ok")>>
  /\ stdout = << >>
  /\ outcome = "running"

NextVersion == ParseVersion \/ CheckVersion

SpecVersion == InitVersion /\ [][NextVersion]_vars

\* ------------------------------------------------------------------------
\* compute_paths on every short list of path arguments: the run stands
\* after the checks of the version.
InitPaths ==
  /\ pc = "compute_paths"
  /\ args \in [autopep8_command : {DEFAULT_CMD},
               paths : SeqsUpTo(PathSamples, MaxPaths),
               changed_only : BOOLEAN]
  /\ host \in [sep : {"/", "\\"}, isfile : SUBSET PathSamples, exists : {{}}]
  /\ AUTOPEP8_FORMAT_CMD = DEFAULT_CMD
  /\ version_output = Some(OutFull)
  /\ version = Some(<<1, 6, 0>>)
  /\ paths = << >>
  /\ git_output = None
  /\ files = << >>
  /\ calls = <<Call(version_argv(DEFAULT_CMD), "ok")>>
  /\ stdout = <<"Using">>
  /\ outcome = "running"

NextPaths == ComputePaths

SpecPaths == InitPaths /\ [][NextPaths]_vars

\* ------------------------------------------------------------------------
\* Vocabulary of the properties.

Done == pc = "done"
SubprocessFailures == {"CalledProcessError", "FileNotFoundError"}

IsVersionCall(c) == c.argv[Len(c.argv)] = opt_version
IsGitCall(c) == c.argv[1] = git_executable
IsFormatCall(c) == \E k \in 1..Len(c.argv) : c.argv[k] = opt_in_place
Started(c) == c.result # "FileNotFoundError"

FormatCalls == {i \in 1..Len(calls) : IsFormatCall(calls[i])}
GitCalls == {i \in 1..Len(calls) : IsGitCall(calls[i])}
VersionCalls == {i \in 1..Len(calls) : IsVersionCall(calls[i])}

\* The words of a format command line after --jobs=0.
FileArgs(c) ==
  LET k == CHOOSE k \in 1..Len(c.argv) : c.argv[k] = opt_jobs
  IN SubSeq(c.argv, k + 1, Len(c.argv))

\* The words of a command line before its first option.
ProgramOf(c) ==
  LET k == SetMin({k \in 1..Len(c.argv) : c.argv[k] \in {opt_version, opt_recursive}})
  IN SubSeq(c.argv, 1, k - 1)

\* f is an entry of NUL-delimited bytes: it stands between two delimiters
\* (or the start) and holds none.
IsEntryOf(f, bytes) ==
  /\ NUL \notin Range(f)
  /\ \E i \in 1..(Len(bytes) + 1) :
       /\ i = 1 \/ bytes[i - 1] = NUL
       /\ i + Len(f) <= Len(bytes)
       /\ bytes[i + Len(f)] = NUL
       /\ SubSeq(bytes, i, i + Len(f) - 1) = f

\* The entries of NUL-delimited bytes, as a set: each runs from the start
\* or from behind a delimiter up to the next delimiter.
EntriesOf(bytes) ==
  {SubSeq(bytes, i, SetMin({j \in i..Len(bytes) : bytes[j] = NUL}) - 1) :
     i \in {i \in 1..Len(bytes) :
              /\ i = 1 \/ bytes[i - 1] = NUL
              /\ \E j \in i..Len(bytes) : bytes[j] = NUL}}

Formattable(f) == EndsWith(f, <<".", "p", "y">>) /\ f # ignore_file

\* v < (1, 6, 0) and v > (1, 6, 0) for tuples of three or more integers.
Below160(v) == v[1] < 1 \/ (v[1] = 1 /\ v[2] < 6)
Above160(v) ==
  \/ v[1] > 1
  \/ v[1] = 1 /\ v[2] > 6
  \/ v[1] = 1 /\ v[2] = 6 /\ v[3] > 0
  \/ v[1] = 1 /\ v[2] = 6 /\ v[3] = 0 /\ Len(v) > 3

\* ------------------------------------------------------------------------
\* C1 (as stated): whenever a run exits with an empty filtered file list, it
\* exits with code 0 and without a format invocation, whatever the
\* formatter's version output was.
C1_AsStated ==
  (Done /\ files = << >> /\ outcome \in {"exit0", "exit1"})
    => (outcome = "exit0" /\ FormatCalls = {})

\* C1 (amended): whenever the version-control query returned decodable
\* output none of whose entries is a supported file outside the exclusion
\* set, the run ends with exit code 0 and no format invocation was issued.
C1_EmptyListExitsZero ==
  (Done /\ git_output # None
        /\ Decodable(Val(git_output))
        /\ \A f \in EntriesOf(Val(git_output)) : ~Formattable(f))
    => (outcome = "exit0" /\ FormatCalls = {})

C1_Witness ==
  /\ Done
  /\ outcome = "exit0"
  /\ git_output = Some(git_bytes(<<ignore_file, File_a_c>>))
  /\ FormatCalls = {}

\* C2 (as stated): when no candidate could be launched, the run reports
\* that the version could not be detected and ends with exit code 1.
C2_UndetectedExitsOne ==
  (Done /\ version_output = None
        /\ outcome \notin {"CalledProcessError", "UnicodeDecodeError"})
    => (outcome = "exit1" /\ stdout = <<"Unable to detect">>)

\* C3: a returned version below (1, 6, 0) is never carried past the check:
\* the run ends with exit code 1 after the "too old" message and issues
\* neither the version-control query nor the format invocation.
C3_TooOldExitsOne ==
  (version # None /\ Below160(Val(version)))
    => /\ pc \in {"check_version", "done"}
       /\ Done => (outcome = "exit1" /\ stdout = <<"Using", "too old">>)
       /\ FormatCalls = {}

C3_Witness ==
  /\ Done
  /\ version = Some(<<1, 5, 9>>)
  /\ outcome = "exit1"

\* C4 (as stated): a run ends with exit code 0, with exit code 1, or with
\* the propagated failure of a subprocess, and in no other way.
C4_ThreeOutcomes ==
  Done => outcome \in {"exit0", "exit1"} \cup SubprocessFailures

\* ------------------------------------------------------------------------
\* The version text of an output, described by positions: it starts at the
\* first digit that begins a whitespace-delimited token and ends before the
\* next whitespace or hyphen.
VersionTextStart(out) ==
  SetMin({i \in 1..Len(out) :
            /\ out[i] \in Digits
            /\ i = 1 \/ out[i - 1] \in Whitespace})

VersionText(out) ==
  LET b == VersionTextStart(out)
      e == SetMin({j \in b..Len(out) : out[j] \in Whitespace \cup {"-"}}
                    \cup {Len(out) + 1})
  IN SubSeq(out, b, e - 1)

\* The decimal text of a natural number.
RECURSIVE Decimal(_)
Decimal(n) ==
  LET d == <<"0", "1", "2", "3", "4", "5", "6", "7", "8", "9">>[(n % 10) + 1]
  IN IF n < 10 THEN <<d>> ELSE Append(Decimal(n \div 10), d)

\* The dotted text of a tuple of natural numbers.
RECURSIVE Dotted(_)
Dotted(v) ==
  IF Len(v) = 1 THEN Decimal(v[1])
  ELSE Decimal(v[1]) \o <<".">> \o Dotted(Tail(v))

\* A version text in which every component is written without underscores
\* and without a superfluous leading zero.
Plain(text) ==
  /\ "_" \notin Range(text)
  /\ \A i \in 1..(Len(text) - 1) :
       (text[i] = "0" /\ (i = 1 \/ text[i - 1] = "."))
         => text[i + 1] = "."

Returned == pc \in {"check_version", "compute_paths", "enumerate", "format", "done"}
                /\ outcome \notin {"AttributeError", "ValueError", "IndexError"}

\* C5 (as stated): a returned version is a tuple of exactly three integers,
\* the ones of the version text of the output.
C5_AsStated ==
  (Returned /\ version # None)
    => /\ Len(Val(version)) = 3
       /\ \A i \in 1..3 : Val(version)[i] \in Nat

\* C5 (amended): a returned version is a tuple of three or more natural
\* numbers, one per dot-separated component of the version text, whose
\* dotted decimal text is the version text whenever that text is plain;
\* the two documented example outputs give (1, 6, 0).
C5_VersionIsVersionText ==
  /\ (Returned /\ version # None) =>
       LET v == Val(version)
           text == VersionText(Val(version_output))
       IN /\ Len(v) >= 3
          /\ \A i \in 1..Len(v) : v[i] \in Nat
          /\ Len(v) = Cardinality({i \in 1..Len(text) : text[i] = "."}) + 1
          /\ Plain(text) => Dotted(v) = text
  /\ (pc # "ensure_parse" /\ version_output \in {Some(OutFull), Some(OutBeta)})
       => version = Some(<<1, 6, 0>>)

C5_Witness ==
  /\ Returned
  /\ version_output = Some(OutBeta)
  /\ version = Some(<<1, 6, 0>>)

\* C6: every file argument of a format invocation is an entry of the
\* version-control output that ends in .py and is outside the exclusion set;
\* neither the generated reference file nor the empty string is passed.
C6_OnlyFilteredFilesFormatted ==
  \A i \in FormatCalls :
    /\ git_output # None
    /\ \A f \in Range(FileArgs(calls[i])) :
         /\ IsEntryOf(f, Val(git_output))
         /\ EndsWith(f, <<".", "p", "y">>)
         /\ f # ignore_file
         /\ f # << >>

C6_Witness ==
  /\ FormatCalls # {}
  /\ git_output = Some(git_bytes(<<ignore_file, File_a_py>>))

\* C7: a returned version above (1, 6, 0) is not fatal.  A run whose version
\* is at or above the minimum prints the warning exactly when the version
\* is above the maximum, and for the rest goes the same way: it never exits
\* with code 1, it queries version control, and it ends with exit code 0
\* either without files or after the format invocation over the files.
C7_TooRecentOnlyWarns ==
  (version # None /\ ~Below160(Val(version)) /\ pc # "check_version")
    => /\ stdout \in
            (IF Above160(Val(version))
             THEN {<<"Using", "WARNING: too recent">>,
                   <<"Using", "WARNING: too recent", "Operating on">>}
             ELSE {<<"Using">>, <<"Using", "Operating on">>})
       /\ outcome # "exit1"
       /\ Done => GitCalls # {}
       /\ (Done /\ outcome = "exit0") =>
            \/ files = << >> /\ FormatCalls = {}
            \/ /\ files # << >>
               /\ IsFormatCall(calls[Len(calls)])
               /\ FileArgs(calls[Len(calls)]) = files
               /\ calls[Len(calls)].result = "ok"

C7_Witness ==
  /\ Done
  /\ version = Some(<<2, 0, 4>>)
  /\ outcome = "exit0"
  /\ FormatCalls # {}

\* ------------------------------------------------------------------------
\* The paths compute_paths is to retain: everything but the existing files
\* of an unsupported suffix.
Retained ==
  SelectSeq(args.paths,
            LAMBDA f : IF f \in host.isfile THEN EndsWith(f, <<".", "p", "y">>) ELSE TRUE)

UserPaths == args.paths # << >> \/ args.changed_only

\* C8 (as stated): without the default paths, the result is the retained
\* paths, in their order, each the exact same string.
C8_AsStated ==
  (pc = "enumerate" /\ UserPaths) => paths = Retained

\* C8 (amended): without the default paths, the result is the retained
\* paths, in their order, each with every "/" written as the separator of
\* the host and otherwise the same string.
C8_RetainedInHostForm ==
  (pc = "enumerate" /\ UserPaths)
    => /\ Len(paths) = Len(Retained)
       /\ \A i \in 1..Len(paths) :
            /\ Len(paths[i]) = Len(Retained[i])
            /\ \A j \in 1..Len(paths[i]) :
                 paths[i][j] = IF Retained[i][j] = "/" THEN host.sep ELSE Retained[i][j]

C8_Witness ==
  /\ pc = "enumerate"
  /\ host.sep = "\\"
  /\ host.isfile = {Path_src_a_py, Path_src_a_c}
  /\ args.paths = <<Path_src_a_c, Path_src_a_py>>
  /\ Len(paths) = 1

\* ------------------------------------------------------------------------
\* C9 (as stated): no formatter process, the version query included, is
\* started before the version-control query has returned.
C9_AsStated ==
  \A i \in 1..Len(calls) :
    (Started(calls[i]) /\ (IsVersionCall(calls[i]) \/ IsFormatCall(calls[i])))
      => \E j \in 1..(i - 1) : IsGitCall(calls[j]) /\ calls[j].result = "ok"

\* C9 (amended): the version queries come first; the version-control query
\* is issued once, after a version query returned a version that is not
\* below the minimum and after the paths were resolved; the format
\* invocation is issued once, last, right after the version-control query
\* returned.
C9_VersionThenGitThenFormat ==
  /\ \A i \in VersionCalls : \A j \in 1..(i - 1) : IsVersionCall(calls[j])
  /\ Cardinality(GitCalls) <= 1
  /\ Cardinality(FormatCalls) <= 1
  /\ \A i \in GitCalls :
       /\ i > 1
       /\ IsVersionCall(calls[i - 1])
       /\ calls[i - 1].result = "ok"
       /\ version # None
       /\ ~Below160(Val(version))
       /\ stdout[Len(stdout)] = "Operating on"
  /\ \A i \in FormatCalls :
       /\ i = Len(calls)
       /\ i > 1
       /\ IsGitCall(calls[i - 1])
       /\ calls[i - 1].result = "ok"

C9_Witness ==
  /\ Done
  /\ Len(calls) = 4
  /\ IsFormatCall(calls[4])

\* ------------------------------------------------------------------------
\* The explicit command was given, exists and could be launched.
ExplicitUsable ==
  /\ args.autopep8_command # << >>
  /\ args.autopep8_command \in host.exists
  /\ calls # << >>
  /\ Started(calls[1])

\* C10: the program of a format invocation is the program of the last
\* version query, which succeeded; it is the explicit command when that one
\* was given, exists and could be launched, and the default otherwise; a
\* second version query is the default's and follows an explicit one that
\* could not be launched.
C10_FormatsWithCheckedCommand ==
  /\ \A i \in FormatCalls :
       LET q == calls[Cardinality(VersionCalls)]
           expected == IF ExplicitUsable THEN args.autopep8_command ELSE DEFAULT_CMD
       IN /\ VersionCalls # {}
          /\ IsVersionCall(q)
          /\ q.result = "ok"
          /\ ProgramOf(calls[i]) = ProgramOf(q)
          /\ ProgramOf(q)[Len(ProgramOf(q))] = expected
  /\ Cardinality(VersionCalls) <= 2
  /\ Cardinality(VersionCalls) = 2 =>
       /\ calls[1].result = "FileNotFoundError"
       /\ ProgramOf(calls[1])[Len(ProgramOf(calls[1]))] = args.autopep8_command
       /\ args.autopep8_command \in host.exists
       /\ ProgramOf(calls[2]) = <<DEFAULT_CMD>>

C10_Witness ==
  /\ FormatCalls # {}
  /\ ProgramOf(calls[Len(calls)]) = <<sys_executable, CmdScript>>
  /\ Len(calls) = 3

====
